---------------------------- MODULE Spec2Model ----------------------------
(***************************************************************************)
(* Model of the connection registry and message-routing engine of         *)
(* server.js (session messenger relay).                                   *)
(*                                                                         *)
(* Strings that the code sorts, concatenates or hashes (session ids) are   *)
(* sequences of code units; every other identifier is a TLA+ string.       *)
(* Time is the clock of Date.now() counted in periods of the expiry        *)
(* sweeper; toISOString() and new Date(iso) are exact at the millisecond   *)
(* precision of Date.now(), so a timestamp is kept as the integer both     *)
(* conversions agree on.  Fields of a payload                              *)
(* that the server copies and never reads (names, metadata, message type,  *)
(* the timestamp of a message) are left out of the records.                *)
(***************************************************************************)
EXTENDS Integers, Sequences, FiniteSets, TLC

(* ------------------------------ bounds -------------------------------- *)

\* last value of the clock, in sweeper periods
MaxClock == 3

\* total number of messages the conversation store may hold
MaxMessages == 2

\* number of keep-alive intervals a single connection may start
MaxTimers == 2

\* the sockets the transport layer hands to wss.on('connection'), numbered
\* in the order they connect
Conns == {1, 2, 3}

\* session identifiers clients present ("a", "b", "ab")
A == <<1>>
B == <<2>>
AB == <<1, 2>>
SessionIds == {A, B, AB}

\* a session identifier that only occurs in payloads ("aa")
AA == <<1, 1>>

\* the empty string, falsy in JavaScript
EMPTY == <<>>

\* the value null of currentSessionId; code unit 0 occurs in no session id
NULL == <<0>>

\* longest session id given to the conversation-id deriver
MaxIdLen == 2

\* code units of the session ids given to the conversation-id deriver
IdAlphabet == {1, 2}

MessageIds == {"m1", "m2"}
InvitationIds == {"i1", "i2"}
Contents == {"hi"}

\* clients.get(k) of a key that is not in the Map
NoConn == 0

\* the value undefined of an id field that is absent from the payload; no
\* message or invitation carries it as its id
UNDEFINED == "undefined"

(* ----------------------------- constants ------------------------------ *)

\* invitation time-to-live (process.env.INVITATION_EXPIRY), in sweeper
\* periods: the clock unit is the period of the expiry sweeper, and the
\* process is configured with a time-to-live of one period
INVITATION_EXPIRY == 1

(* ------------------------------- state -------------------------------- *)

VARIABLES
    readyState,        \* ws.readyState of each socket
    currentSessionId,  \* closure variable of each connection
    heartbeatTimer,    \* closure variable: TRUE when it holds an interval
    activeTimers,      \* number of intervals of the connection not yet cleared
    clients,           \* Map sessionId -> WebSocket
    invitations,       \* Map invitationId -> invitation, in insertion order
    messages,          \* Map conversationId -> messages, in insertion order
    now,               \* Date.now(), in sweeper periods
    out,               \* frames written to each socket by the last callback
    derived            \* two session ids and the conversation ids computed
                       \* from them in either argument order

vars == <<readyState, currentSessionId, heartbeatTimer, activeTimers,
          clients, invitations, messages, now, out, derived>>

(* ------------------------- utility functions -------------------------- *)

\* s < t on strings: comparison by code units, a proper prefix is smaller
RECURSIVE StrLess(_, _)
StrLess(s, t) ==
    IF t = <<>> THEN FALSE
    ELSE IF s = <<>> THEN TRUE
    ELSE IF Head(s) # Head(t) THEN Head(s) < Head(t)
    ELSE StrLess(Tail(s), Tail(t))

\* the pair left in argument order
Sort2Unsorted(x, y) == <<x, y>>

\* [x, y].sort()
Sort2(x, y) == IF StrLess(y, x) THEN <<y, x>> ELSE <<x, y>>

\* crypto.createHash('sha256').update(s).digest('hex'): a digest that is
\* determined by its input and taken to be collision free
Sha256Hex(s) == [sha256 |-> s]

generateConversationId(sessionId1, sessionId2) ==
    LET sorted == Sort2(sessionId1, sessionId2)
    IN  Sha256Hex(sorted[1] \o sorted[2])

\* the result slot of a call that has not been made
NotCalled == [sha256 |-> <<0>>]

\* no frame written
NoOut == [c \in Conns |-> <<>>]

\* client.send(JSON.stringify(message)) on socket c
Send(o, c, message) == [o EXCEPT ![c] = Append(@, message)]

\* broadcastToUser without the readyState test
broadcastToUserAnyState(reg, rs, o, sessionId, message) ==
    LET client == IF sessionId \in DOMAIN reg THEN reg[sessionId] ELSE NoConn
    IN  IF client # NoConn THEN Send(o, client, message) ELSE o

\* broadcastToUser that writes the frame a second time
broadcastToUserTwice(reg, rs, o, sessionId, message) ==
    LET client == IF sessionId \in DOMAIN reg THEN reg[sessionId] ELSE NoConn
    IN  IF client # NoConn /\ rs[client] = "OPEN"
        THEN Send(Send(o, client, message), client, message)
        ELSE o

\* broadcastToUser(sessionId, message) against registry reg and socket
\* states rs, adding to the frames o already written by the callback
broadcastToUser(reg, rs, o, sessionId, message) ==
    LET client == IF sessionId \in DOMAIN reg THEN reg[sessionId] ELSE NoConn
    IN  IF client # NoConn /\ rs[client] = "OPEN"
        THEN Send(o, client, message)
        ELSE o

\* broadcastToUsers(sessionIds, message)
RECURSIVE broadcastToUsers(_, _, _, _, _)
broadcastToUsers(reg, rs, o, sessionIds, message) ==
    IF sessionIds = {} THEN o
    ELSE LET s == CHOOSE x \in sessionIds : TRUE
         IN  broadcastToUsers(reg, rs,
                 broadcastToUser(reg, rs, o, s, message),
                 sessionIds \ {s}, message)

\* Array.from(clients.keys())
ClientKeys(reg) == {s \in DOMAIN reg : reg[s] # NoConn}

\* messages.has(conversationId)
MessagesHas(msgs, conversationId) ==
    \E i \in 1..Len(msgs) : msgs[i].conversationId = conversationId

\* the userContacts filter of handleAuth and of the close handler
userContacts(reg, msgs, sessionId) ==
    {s \in ClientKeys(reg) :
        MessagesHas(msgs, generateConversationId(sessionId, s))}

\* number of messages in the conversation store
RECURSIVE TotalMessages(_)
TotalMessages(msgs) ==
    IF msgs = <<>> THEN 0
    ELSE Len(Head(msgs).messages) + TotalMessages(Tail(msgs))

(* ------------------------------- Init --------------------------------- *)

Init ==
    /\ readyState = [c \in Conns |-> "NONE"]
    /\ currentSessionId = [c \in Conns |-> NULL]
    /\ heartbeatTimer = [c \in Conns |-> FALSE]
    /\ activeTimers = [c \in Conns |-> 0]
    /\ clients = [s \in SessionIds |-> NoConn]
    /\ invitations = <<>>
    /\ messages = <<>>
    /\ now = 0
    /\ out = NoOut
    /\ derived = [sessionId1 |-> A, sessionId2 |-> B,
                  forward |-> NotCalled, backward |-> NotCalled]

(* ---------------------- connection life cycle ------------------------- *)

\* wss.on('connection'): a new socket, open, with fresh closure variables
connection(c) ==
    /\ readyState[c] = "NONE"
    /\ \A d \in Conns : d < c => readyState[d] # "NONE"
    /\ readyState' = [readyState EXCEPT ![c] = "OPEN"]
    /\ currentSessionId' = [currentSessionId EXCEPT ![c] = NULL]
    /\ heartbeatTimer' = [heartbeatTimer EXCEPT ![c] = FALSE]
    /\ out' = NoOut
    /\ UNCHANGED <<derived, activeTimers, clients, invitations, messages, now>>

\* stopHeartbeat(): clears the interval heartbeatTimer refers to, if any
stopHeartbeatTimers(c) ==
    IF heartbeatTimer[c] THEN activeTimers[c] - 1 ELSE activeTimers[c]

\* ws.on('error'): the socket is being torn down; only the timer is stopped
error(c) ==
    /\ readyState[c] = "OPEN"
    /\ readyState' = [readyState EXCEPT ![c] = "CLOSING"]
    /\ activeTimers' = [activeTimers EXCEPT ![c] = stopHeartbeatTimers(c)]
    /\ heartbeatTimer' = [heartbeatTimer EXCEPT ![c] = FALSE]
    /\ out' = NoOut
    /\ UNCHANGED <<derived, currentSessionId, clients, invitations, messages, now>>

\* a delete that is skipped when the registry holds another socket
closeClientsChecked(c) ==
    IF currentSessionId[c] # NULL /\ clients[currentSessionId[c]] = c
    THEN [clients EXCEPT ![currentSessionId[c]] = NoConn]
    ELSE clients

\* a delete that empties the registry
closeClientsAll(c) == [s \in SessionIds |-> NoConn]

\* clients.delete(currentSessionId) of the close handler
closeClients(c) ==
    IF currentSessionId[c] # NULL
    THEN [clients EXCEPT ![currentSessionId[c]] = NoConn]
    ELSE clients

\* ws.on('close'): readyState is CLOSED when the handler runs
close(c) ==
    /\ readyState[c] \in {"OPEN", "CLOSING"}
    /\ readyState' = [readyState EXCEPT ![c] = "CLOSED"]
    /\ clients' = closeClients(c)
    /\ out' = IF currentSessionId[c] # NULL
              THEN broadcastToUsers(clients', readyState', NoOut,
                       userContacts(clients', messages, currentSessionId[c]),
                       [type |-> "contact_offline",
                        data |-> [sessionId |-> currentSessionId[c]]])
              ELSE NoOut
    /\ activeTimers' = [activeTimers EXCEPT ![c] = stopHeartbeatTimers(c)]
    /\ heartbeatTimer' = [heartbeatTimer EXCEPT ![c] = FALSE]
    /\ UNCHANGED <<derived, currentSessionId, invitations, messages, now>>

\* the interval callback of startHeartbeat fires
heartbeat(c) ==
    /\ activeTimers[c] > 0
    /\ out' = IF readyState[c] = "OPEN"
              THEN Send(NoOut, c, [type |-> "pong"])
              ELSE NoOut
    /\ UNCHANGED <<derived, readyState, currentSessionId, heartbeatTimer,
                   activeTimers, clients, invitations, messages, now>>

(* ------------------------------ handlers ------------------------------ *)

\* a registry that keeps the first socket of a session id
authClientsFirstWins(c, sessionId) ==
    IF clients[sessionId] = NoConn
    THEN [clients EXCEPT ![sessionId] = c]
    ELSE clients

\* clients.set(sessionId, ws)
authClients(c, sessionId) == [clients EXCEPT ![sessionId] = c]

\* a test that lets every sessionId through
missingNever(sessionId) == FALSE

\* !sessionId: the sessionId of the payload is missing or the empty string
missing(sessionId) == sessionId = EMPTY

\* handleAuth(ws, data), data = {sessionId}
handleAuth(c, data) ==
    /\ readyState[c] = "OPEN"
    /\ IF missing(data.sessionId)
       THEN /\ out' = Send(NoOut, c,
                          [type |-> "error",
                           data |-> [message |-> "Session ID is required"]])
            /\ UNCHANGED <<derived, readyState, currentSessionId, heartbeatTimer,
                           activeTimers, clients, invitations, messages, now>>
       ELSE /\ activeTimers[c] < MaxTimers
            /\ currentSessionId' =
                   [currentSessionId EXCEPT ![c] = data.sessionId]
            /\ clients' = authClients(c, data.sessionId)
            /\ heartbeatTimer' = [heartbeatTimer EXCEPT ![c] = TRUE]
            /\ activeTimers' = [activeTimers EXCEPT ![c] = @ + 1]
            /\ out' = broadcastToUsers(clients', readyState, NoOut,
                          userContacts(clients', messages, data.sessionId),
                          [type |-> "contact_online",
                           data |-> [sessionId |-> data.sessionId]])
            /\ UNCHANGED <<derived, readyState, invitations, messages, now>>

\* messages.set(conversationId, []) done whether or not the bucket exists
pushMessageReset(msgs, conversationId, message) ==
    IF \E i \in 1..Len(msgs) : msgs[i].conversationId = conversationId
    THEN [i \in 1..Len(msgs) |->
             IF msgs[i].conversationId = conversationId
             THEN [msgs[i] EXCEPT !.messages = <<message>>]
             ELSE msgs[i]]
    ELSE Append(msgs, [conversationId |-> conversationId,
                       messages |-> <<message>>])

\* unshift instead of push: the message is put in front of the conversation
pushMessageFront(msgs, conversationId, message) ==
    IF MessagesHas(msgs, conversationId)
    THEN [i \in 1..Len(msgs) |->
             IF msgs[i].conversationId = conversationId
             THEN [msgs[i] EXCEPT !.messages = <<message>> \o @]
             ELSE msgs[i]]
    ELSE Append(msgs, [conversationId |-> conversationId,
                       messages |-> <<message>>])

\* messages.get(conversationId).push(message), after creating the bucket
\* when messages.has(conversationId) is false
pushMessage(msgs, conversationId, message) ==
    IF MessagesHas(msgs, conversationId)
    THEN [i \in 1..Len(msgs) |->
             IF msgs[i].conversationId = conversationId
             THEN [msgs[i] EXCEPT !.messages = Append(@, message)]
             ELSE msgs[i]]
    ELSE Append(msgs, [conversationId |-> conversationId,
                       messages |-> <<message>>])

\* a handleMessageSend that serves only the connection authenticated as
\* the senderId of the payload
handleMessageSendAuthenticated(c, data) ==
    /\ readyState[c] = "OPEN"
    /\ currentSessionId[c] = data.senderId
    /\ TotalMessages(messages) < MaxMessages
    /\ LET message == [id |-> data.id,
                       senderId |-> data.senderId,
                       recipientId |-> data.recipientId,
                       content |-> data.content,
                       status |-> "sent"]
           conversationId ==
               generateConversationId(message.senderId, message.recipientId)
       IN  /\ messages' = pushMessage(messages, conversationId, message)
           /\ out' = broadcastToUser(clients, readyState, NoOut,
                         message.recipientId,
                         [type |-> "message_received", data |-> message])
    /\ UNCHANGED <<derived, readyState, currentSessionId, heartbeatTimer,
                   activeTimers, clients, invitations, now>>

\* handleMessageSend(ws, data), data = {id, senderId, recipientId, content}
handleMessageSend(c, data) ==
    /\ readyState[c] = "OPEN"
    /\ TotalMessages(messages) < MaxMessages
    /\ LET message == [id |-> data.id,
                       senderId |-> data.senderId,
                       recipientId |-> data.recipientId,
                       content |-> data.content,
                       status |-> "sent"]
           conversationId ==
               generateConversationId(message.senderId, message.recipientId)
       IN  /\ messages' = pushMessage(messages, conversationId, message)
           /\ out' = broadcastToUser(clients, readyState, NoOut,
                         message.recipientId,
                         [type |-> "message_received", data |-> message])
    /\ UNCHANGED <<derived, readyState, currentSessionId, heartbeatTimer,
                   activeTimers, clients, invitations, now>>

\* a findIndex that reports the first message whatever its id
findIndexFirst(conversationMessages, messageId) == 1

\* conversationMessages.findIndex(msg => msg.id === messageId); 0 for -1
findIndex(conversationMessages, messageId) ==
    IF \E j \in 1..Len(conversationMessages) :
           conversationMessages[j].id = messageId
    THEN CHOOSE j \in 1..Len(conversationMessages) :
             /\ conversationMessages[j].id = messageId
             /\ \A k \in 1..(j - 1) : conversationMessages[k].id # messageId
    ELSE 0

\* position in messages.entries() of the conversation at which the loop of
\* handleMessageRead breaks; 0 when findIndex is -1 in every conversation
readConversation(msgs, messageId) ==
    IF \E i \in 1..Len(msgs) : findIndex(msgs[i].messages, messageId) # 0
    THEN CHOOSE i \in 1..Len(msgs) :
             /\ findIndex(msgs[i].messages, messageId) # 0
             /\ \A k \in 1..(i - 1) :
                    findIndex(msgs[k].messages, messageId) = 0
    ELSE 0

\* the first message of the conversation marked instead of the one found
markReadFirst(msgs, i, j) ==
    [msgs EXCEPT ![i].messages[1].status = "read"]

\* a mark that turns a message already read back to sent
markReadToggle(msgs, i, j) ==
    [msgs EXCEPT ![i].messages[j].status =
                     IF @ = "read" THEN "sent" ELSE "read"]

\* a mark of every stored message that carries the id of the one found
markReadAll(msgs, i, j) ==
    [k \in 1..Len(msgs) |->
        [msgs[k] EXCEPT !.messages =
            [l \in 1..Len(msgs[k].messages) |->
                IF msgs[k].messages[l].id = msgs[i].messages[j].id
                THEN [msgs[k].messages[l] EXCEPT !.status = "read"]
                ELSE msgs[k].messages[l]]]]

\* conversationMessages[messageIndex].status = 'read'
markRead(msgs, i, j) ==
    [msgs EXCEPT ![i].messages[j].status = "read"]

\* a handleMessageRead that empties the registry
handleMessageReadUnregistering(c, data) ==
    /\ readyState[c] = "OPEN"
    /\ clients' = [s \in SessionIds |-> NoConn]
    /\ out' = NoOut
    /\ UNCHANGED <<derived, readyState, currentSessionId, heartbeatTimer,
                   activeTimers, invitations, messages, now>>

\* handleMessageRead(ws, data), data = {messageId}
handleMessageRead(c, data) ==
    /\ readyState[c] = "OPEN"
    /\ LET i == readConversation(messages, data.messageId)
       IN  IF i = 0
           THEN /\ messages' = messages
                /\ out' = NoOut
           ELSE LET j == findIndex(messages[i].messages, data.messageId)
                IN  /\ messages' = markRead(messages, i, j)
                    /\ out' = broadcastToUser(clients, readyState, NoOut,
                                  messages[i].messages[j].senderId,
                                  [type |-> "message_status",
                                   data |-> [messageId |-> data.messageId,
                                             status |-> "read"]])
    /\ UNCHANGED <<derived, readyState, currentSessionId, heartbeatTimer,
                   activeTimers, clients, invitations, now>>

\* a lookup that returns the first entry of a non-empty Map for every key
invitationIndexFirst(invs, invitationId) == IF Len(invs) > 0 THEN 1 ELSE 0

\* invitations.get(invitationId): position in the Map, 0 when undefined
invitationIndex(invs, invitationId) ==
    IF \E i \in 1..Len(invs) : invs[i].id = invitationId
    THEN CHOOSE i \in 1..Len(invs) : invs[i].id = invitationId
    ELSE 0

\* a set that adds a second entry instead of replacing the existing one
invitationsSetAppend(invs, invitation) == Append(invs, invitation)

\* a set that leaves the record of a status other than pending as it is
invitationsSetIfPending(invs, invitation) ==
    LET i == invitationIndex(invs, invitation.id)
    IN  IF i = 0 THEN Append(invs, invitation)
        ELSE IF invs[i].status = "pending"
        THEN [invs EXCEPT ![i] = invitation]
        ELSE invs

\* a set that deletes the existing record and adds nothing in its place
invitationsSetDelete(invs, invitation) ==
    LET i == invitationIndex(invs, invitation.id)
    IN  IF i = 0 THEN Append(invs, invitation)
        ELSE [k \in 1..(Len(invs) - 1) |->
                 IF k < i THEN invs[k] ELSE invs[k + 1]]

\* invitations.set(id, invitation): an existing key keeps its position
invitationsSet(invs, invitation) ==
    LET i == invitationIndex(invs, invitation.id)
    IN  IF i = 0 THEN Append(invs, invitation)
        ELSE [invs EXCEPT ![i] = invitation]

\* expiresAt without the time-to-live
expiresAtNow(t) == t

\* expiresAt of an invitation created at time t
expiresAtOf(t) == t + INVITATION_EXPIRY

\* handleInvitationSend(ws, data), data = {id, senderId, recipientId}
handleInvitationSend(c, data) ==
    /\ readyState[c] = "OPEN"
    /\ LET invitation == [id |-> data.id,
                          senderId |-> data.senderId,
                          recipientId |-> data.recipientId,
                          status |-> "pending",
                          createdAt |-> now,
                          expiresAt |-> expiresAtOf(now)]
       IN  /\ invitations' = invitationsSet(invitations, invitation)
           /\ out' = broadcastToUser(clients, readyState, NoOut,
                         invitation.recipientId,
                         [type |-> "invitation_received",
                          data |-> invitation])
    /\ UNCHANGED <<derived, readyState, currentSessionId, heartbeatTimer,
                   activeTimers, clients, messages, now>>

\* handleInvitationAccept(ws, data), data = {invitationId}
handleInvitationAccept(c, data) ==
    /\ readyState[c] = "OPEN"
    /\ LET i == invitationIndex(invitations, data.invitationId)
       IN  IF i = 0
           THEN /\ invitations' = invitations
                /\ out' = Send(NoOut, c,
                              [type |-> "error",
                               data |-> [message |-> "Invitation not found"]])
           ELSE LET invitation ==
                        [invitations[i] EXCEPT !.status = "accepted"]
                IN  /\ invitations' = invitationsSet(invitations, invitation)
                    /\ out' = broadcastToUser(clients, readyState, NoOut,
                                  invitation.senderId,
                                  [type |-> "invitation_response",
                                   data |-> invitation])
    /\ UNCHANGED <<derived, readyState, currentSessionId, heartbeatTimer,
                   activeTimers, clients, messages, now>>

\* handleInvitationDecline(ws, data), data = {invitationId}
handleInvitationDecline(c, data) ==
    /\ readyState[c] = "OPEN"
    /\ LET i == invitationIndex(invitations, data.invitationId)
       IN  IF i = 0
           THEN /\ invitations' = invitations
                /\ out' = Send(NoOut, c,
                              [type |-> "error",
                               data |-> [message |-> "Invitation not found"]])
           ELSE LET invitation ==
                        [invitations[i] EXCEPT !.status = "declined"]
                IN  /\ invitations' = invitationsSet(invitations, invitation)
                    /\ out' = broadcastToUser(clients, readyState, NoOut,
                                  invitation.senderId,
                                  [type |-> "invitation_response",
                                   data |-> invitation])
    /\ UNCHANGED <<derived, readyState, currentSessionId, heartbeatTimer,
                   activeTimers, clients, messages, now>>

(* ----------------------- dispatcher and typing ------------------------ *)

\* a typing_indicator that forwards the sessionId of the payload
typingIndicatorOfPayload(c, data) ==
    [sessionId |-> data.sessionId, isTyping |-> data.isTyping]

\* the data object handleTypingIndicator forwards
typingIndicatorOf(c, data) ==
    [sessionId |-> currentSessionId[c], isTyping |-> data.isTyping]

\* handleTypingIndicator(ws, data), data = {recipientId, isTyping}; a
\* sessionId in the payload is not read
handleTypingIndicator(c, data) ==
    /\ readyState[c] = "OPEN"
    /\ out' = broadcastToUser(clients, readyState, NoOut, data.recipientId,
                  [type |-> "typing_indicator",
                   data |-> typingIndicatorOf(c, data)])
    /\ UNCHANGED <<derived, readyState, currentSessionId, heartbeatTimer,
                   activeTimers, clients, invitations, messages, now>>

\* a catch block that swallows the exception
catchFramesNone(c) == NoOut

\* the frames written by the catch block of ws.on('message')
catchFrames(c) ==
    Send(NoOut, c,
         [type |-> "error", data |-> [message |-> "Invalid message format"]])

\* ws.on('message') with a frame on which JSON.parse throws
messageParseError(c) ==
    /\ readyState[c] = "OPEN"
    /\ out' = catchFrames(c)
    /\ UNCHANGED <<derived, readyState, currentSessionId, heartbeatTimer,
                   activeTimers, clients, invitations, messages, now>>

\* ws.on('message') with a frame of a type that has a handler and no data
\* member: the handler throws a TypeError on its first read of data,
\* before it writes anything
messageNoData(c) ==
    /\ readyState[c] = "OPEN"
    /\ out' = catchFrames(c)
    /\ UNCHANGED <<derived, readyState, currentSessionId, heartbeatTimer,
                   activeTimers, clients, invitations, messages, now>>

\* a pong written to every socket
pongFramesAll(c) == [k \in Conns |-> << [type |-> "pong"] >>]

\* the frames written by case 'ping'
pongFrames(c) == Send(NoOut, c, [type |-> "pong"])

\* ws.on('message') with a frame of type ping
messagePing(c) ==
    /\ readyState[c] = "OPEN"
    /\ out' = pongFrames(c)
    /\ UNCHANGED <<derived, readyState, currentSessionId, heartbeatTimer,
                   activeTimers, clients, invitations, messages, now>>

\* a default case that answers with an error frame
defaultFramesError(c) ==
    Send(NoOut, c,
         [type |-> "error", data |-> [message |-> "Unknown message type"]])

\* the frames written by the default case: it only logs
defaultFrames(c) == NoOut

\* ws.on('message') with a frame whose type has no case
messageDefault(c) ==
    /\ readyState[c] = "OPEN"
    /\ out' = defaultFrames(c)
    /\ UNCHANGED <<derived, readyState, currentSessionId, heartbeatTimer,
                   activeTimers, clients, invitations, messages, now>>

(* --------------------------- expiry sweeper --------------------------- *)

\* a sweeper that expires an invitation at its expiry time already
sweepConditionInclusive(invitation, t) == invitation.expiresAt <= t

\* the condition under which the sweeper expires an invitation at time t
sweepCondition(invitation, t) == invitation.expiresAt < t

\* the loop of the sweeper over invitations.entries() from position i on,
\* at time t: the store and the frames written
RECURSIVE sweep(_, _, _, _)
sweep(i, invs, o, t) ==
    IF i > Len(invs) THEN [invitations |-> invs, out |-> o]
    ELSE IF sweepCondition(invs[i], t)
    THEN LET invitation == [invs[i] EXCEPT !.status = "expired"]
             response == [type |-> "invitation_response",
                          data |-> invitation]
         IN  sweep(i + 1, [invs EXCEPT ![i] = invitation],
                   broadcastToUser(clients, readyState,
                       broadcastToUser(clients, readyState, o,
                           invitation.senderId, response),
                       invitation.recipientId, response),
                   t)
    ELSE sweep(i + 1, invs, o, t)

\* one period of the clock passes and the setInterval callback of the
\* sweeper runs
sweeper ==
    /\ now < MaxClock
    /\ now' = now + 1
    /\ LET r == sweep(1, invitations, NoOut, now')
       IN  /\ invitations' = r.invitations
           /\ out' = r.out
    /\ UNCHANGED <<derived, readyState, currentSessionId, heartbeatTimer,
                   activeTimers, clients, messages>>

(* ---------------------------- specification --------------------------- *)

AuthData == [sessionId : SessionIds \cup {EMPTY}]
MessageSendData ==
    [id : MessageIds, senderId : SessionIds, recipientId : SessionIds,
     content : Contents]
MessageReadData == [messageId : MessageIds]
InvitationSendData ==
    [id : InvitationIds, senderId : SessionIds, recipientId : SessionIds]
InvitationData == [invitationId : InvitationIds]
TypingData ==
    [recipientId : SessionIds, isTyping : BOOLEAN, sessionId : SessionIds]

Next ==
    \/ \E c \in Conns : connection(c)
    \/ \E c \in Conns : error(c)
    \/ \E c \in Conns : close(c)
    \/ \E c \in Conns : heartbeat(c)
    \/ \E c \in Conns, data \in AuthData : handleAuth(c, data)
    \/ \E c \in Conns, data \in MessageSendData : handleMessageSend(c, data)
    \/ \E c \in Conns, data \in MessageReadData : handleMessageRead(c, data)
    \/ \E c \in Conns, data \in InvitationSendData :
           handleInvitationSend(c, data)
    \/ \E c \in Conns, data \in InvitationData :
           handleInvitationAccept(c, data)
    \/ \E c \in Conns, data \in InvitationData :
           handleInvitationDecline(c, data)
    \/ \E c \in Conns, data \in TypingData : handleTypingIndicator(c, data)
    \/ \E c \in Conns : messageParseError(c)
    \/ \E c \in Conns : messageNoData(c)
    \/ \E c \in Conns : messagePing(c)
    \/ \E c \in Conns : messageDefault(c)
    \/ sweeper

Spec == Init /\ [][Next]_vars

(* The conversation-id deriver alone, on every pair of strings of at most
   MaxIdLen code units over the alphabet IdAlphabet, the empty string
   included *)

IdStrings == UNION {[1..n -> IdAlphabet] : n \in 0..MaxIdLen}

InitDerive ==
    /\ readyState = [c \in Conns |-> "NONE"]
    /\ currentSessionId = [c \in Conns |-> NULL]
    /\ heartbeatTimer = [c \in Conns |-> FALSE]
    /\ activeTimers = [c \in Conns |-> 0]
    /\ clients = [s \in SessionIds |-> NoConn]
    /\ invitations = <<>>
    /\ messages = <<>>
    /\ now = 0
    /\ out = NoOut
    /\ derived \in [sessionId1 : IdStrings, sessionId2 : IdStrings,
                     forward : {NotCalled}, backward : {NotCalled}]

\* generateConversationId(sessionId1, sessionId2) is called
deriveForward ==
    /\ derived' = [derived EXCEPT !.forward =
           generateConversationId(derived.sessionId1, derived.sessionId2)]
    /\ UNCHANGED <<readyState, currentSessionId, heartbeatTimer, activeTimers,
                   clients, invitations, messages, now, out>>

\* generateConversationId(sessionId2, sessionId1) is called
deriveBackward ==
    /\ derived' = [derived EXCEPT !.backward =
           generateConversationId(derived.sessionId2, derived.sessionId1)]
    /\ UNCHANGED <<readyState, currentSessionId, heartbeatTimer, activeTimers,
                   clients, invitations, messages, now, out>>

NextDerive == deriveForward \/ deriveBackward

SpecDerive == InitDerive /\ [][NextDerive]_vars

(* The connection registry alone: every socket, any number of auth events *)

NextConn ==
    \/ \E c \in Conns : connection(c)
    \/ \E c \in Conns : error(c)
    \/ \E c \in Conns : close(c)
    \/ \E c \in Conns : heartbeat(c)
    \/ \E c \in Conns, data \in AuthData : handleAuth(c, data)

SpecConn == Init /\ [][NextConn]_vars

(* Messaging between the sessions "a" and "b" on two sockets, each of which
   authenticates once *)

MsgConns == {1, 2}
MsgSessions == {A, B}

\* message_send payloads between "a" and "b", a session to itself included
MsgSendData ==
    [id : MessageIds, senderId : MsgSessions, recipientId : MsgSessions,
     content : Contents]

\* invitation_send payloads from "a" to "b"
InvSendData == [id : InvitationIds, senderId : {A}, recipientId : {B}]

NextMsg ==
    \/ \E c \in MsgConns : connection(c)
    \/ \E c \in MsgConns : error(c)
    \/ \E c \in MsgConns : close(c)
    \/ \E c \in MsgConns, data \in [sessionId : MsgSessions \cup {EMPTY}] :
           currentSessionId[c] = NULL /\ handleAuth(c, data)
    \/ \E c \in MsgConns, data \in MsgSendData : handleMessageSend(c, data)
    \/ \E c \in MsgConns, data \in MessageReadData : handleMessageRead(c, data)

SpecMsg == Init /\ [][NextMsg]_vars

(* Invitations from the session "a" to the session "b" on two sockets, each
   of which authenticates once as "a" or as "b" *)

NextInv ==
    \/ \E c \in MsgConns : connection(c)
    \/ \E c \in MsgConns : error(c)
    \/ \E c \in MsgConns : close(c)
    \/ \E c \in MsgConns, data \in [sessionId : MsgSessions \cup {EMPTY}] :
           currentSessionId[c] = NULL /\ handleAuth(c, data)
    \/ \E c \in MsgConns, data \in InvSendData :
           handleInvitationSend(c, data)
    \/ \E c \in MsgConns, data \in InvitationData :
           handleInvitationAccept(c, data)
    \/ \E c \in MsgConns, data \in InvitationData :
           handleInvitationDecline(c, data)
    \/ sweeper

SpecInv == Init /\ [][NextInv]_vars

(* Presence: the sessions "a", "b" and "ab" on two sockets that may
   authenticate more than once, with messages sent in the name of "a" *)

\* message_send payloads from "a" to any session, "a" itself included
PresSendData ==
    [id : {"m1"}, senderId : {A}, recipientId : SessionIds,
     content : Contents]

NextPres ==
    \/ \E c \in MsgConns : connection(c)
    \/ \E c \in MsgConns : error(c)
    \/ \E c \in MsgConns : close(c)
    \/ \E c \in MsgConns, data \in AuthData : handleAuth(c, data)
    \/ \E c \in MsgConns, data \in PresSendData : handleMessageSend(c, data)

SpecPres == Init /\ [][NextPres]_vars

(* Conversations of the pairs that can be formed from "a" or "aa" on one
   side and "b" or "ab" on the other, on two sockets, each of which
   authenticates once *)

\* message_send payloads from "a" or "aa" to "b" or "ab"
PairSendData ==
    [id : {"m1"}, senderId : {A, AA}, recipientId : {B, AB},
     content : Contents]

NextPair ==
    \/ \E c \in MsgConns : connection(c)
    \/ \E c \in MsgConns : error(c)
    \/ \E c \in MsgConns : close(c)
    \/ \E c \in MsgConns, data \in AuthData :
           currentSessionId[c] = NULL /\ handleAuth(c, data)
    \/ \E c \in MsgConns, data \in PairSendData : handleMessageSend(c, data)

SpecPair == Init /\ [][NextPair]_vars

(* The dispatcher: every case of ws.on('message') on two sockets, each of
   which authenticates once, with one message and one invitation from "a"
   to "b" and with payloads whose id is missing *)

DispSendData ==
    [id : {"m1"}, senderId : {A}, recipientId : {B}, content : Contents]
DispReadData == [messageId : {"m1", UNDEFINED}]
DispInvSendData == [id : {"i1"}, senderId : {A}, recipientId : {B}]
DispInvData == [invitationId : {"i1", UNDEFINED}]
DispTypingData ==
    [recipientId : MsgSessions, isTyping : BOOLEAN, sessionId : MsgSessions]

NextDisp ==
    \/ \E c \in MsgConns : connection(c)
    \/ \E c \in MsgConns : close(c)
    \/ \E c \in MsgConns, data \in [sessionId : MsgSessions \cup {EMPTY}] :
           currentSessionId[c] = NULL /\ handleAuth(c, data)
    \/ \E c \in MsgConns, data \in DispSendData : handleMessageSend(c, data)
    \/ \E c \in MsgConns, data \in DispReadData : handleMessageRead(c, data)
    \/ \E c \in MsgConns, data \in DispInvSendData :
           handleInvitationSend(c, data)
    \/ \E c \in MsgConns, data \in DispInvData :
           handleInvitationAccept(c, data)
    \/ \E c \in MsgConns, data \in DispInvData :
           handleInvitationDecline(c, data)
    \/ \E c \in MsgConns, data \in DispTypingData :
           handleTypingIndicator(c, data)
    \/ \E c \in MsgConns : messageParseError(c)
    \/ \E c \in MsgConns : messageNoData(c)
    \/ \E c \in MsgConns : messagePing(c)
    \/ \E c \in MsgConns : messageDefault(c)

SpecDisp == Init /\ [][NextDisp]_vars

(* Reconnection: three sockets, each of which authenticates once as "a" or
   as "b", and messages with the id m1 between "a" and "b" *)

StaleSendData ==
    [id : {"m1"}, senderId : MsgSessions, recipientId : MsgSessions,
     content : Contents]

NextStale ==
    \/ \E c \in Conns : connection(c)
    \/ \E c \in Conns : close(c)
    \/ \E c \in Conns, data \in [sessionId : MsgSessions] :
           currentSessionId[c] = NULL /\ handleAuth(c, data)
    \/ \E c \in Conns, data \in StaleSendData : handleMessageSend(c, data)

SpecStale == Init /\ [][NextStale]_vars

(* Re-sent invitations: the ids i1 and i2 sent between "a" and "b" in
   either direction on two sockets, each of which authenticates once *)

ResendData ==
    {d \in [id : InvitationIds, senderId : MsgSessions,
            recipientId : MsgSessions] : d.senderId # d.recipientId}

NextResend ==
    \/ \E c \in MsgConns : connection(c)
    \/ \E c \in MsgConns, data \in [sessionId : MsgSessions] :
           currentSessionId[c] = NULL /\ handleAuth(c, data)
    \/ \E c \in MsgConns, data \in ResendData : handleInvitationSend(c, data)
    \/ \E c \in MsgConns, data \in InvitationData :
           handleInvitationAccept(c, data)
    \/ sweeper

SpecResend == Init /\ [][NextResend]_vars

(* The dispatcher together with the expiry sweeper *)

NextStores ==
    \/ NextDisp
    \/ sweeper

SpecStores == Init /\ [][NextStores]_vars

(* ------------------------------ claims -------------------------------- *)

\* the Message object handleMessageSend builds from its payload
MessageOf(d) ==
    [id |-> d.id, senderId |-> d.senderId, recipientId |-> d.recipientId,
     content |-> d.content, status |-> "sent"]

\* C1: immediately after connection c processes an auth event with a
\* non-empty sessionId S the registry maps S to c, whether or not S was
\* registered to another open connection; no socket changes its readyState
\* in that step (the replaced connection is not closed); and the frames of a
\* later message_send addressed to S are written to the connection the
\* registry holds for S and to no other.
C1_AuthLastWriteWins ==
    [][/\ \A c \in MsgConns, S \in MsgSessions :
              handleAuth(c, [sessionId |-> S]) =>
                  /\ clients'[S] = c
                  /\ readyState' = readyState
       /\ \A c \in MsgConns, d \in MsgSendData :
              handleMessageSend(c, d) =>
                  \A k \in Conns :
                      out'[k] # <<>> => k = clients[d.recipientId]
      ]_vars

\* C1 witness: two open connections have both authenticated as "a", the
\* registry holds the later one, and a message for "a" was written to it
\* and not to the earlier one.
C1_Witness ==
    \E c, c1 \in Conns :
        /\ c1 < c
        /\ readyState[c] = "OPEN" /\ readyState[c1] = "OPEN"
        /\ currentSessionId[c] = A /\ currentSessionId[c1] = A
        /\ clients[A] = c
        /\ Len(out[c]) = 1
        /\ out[c][1].type = "message_received"
        /\ out[c][1].data.recipientId = A
        /\ out[c1] = <<>>

\* C2: when a connection closes, every registry entry that holds this
\* connection (the entries of the session ids it authenticated with and
\* that no other connection took over afterwards) is removed.
C2_CloseRemovesEveryEntry ==
    [][\A c \in Conns :
           close(c) =>
               \A S \in SessionIds : clients[S] = c => clients'[S] = NoConn
      ]_vars

\* C3: a message_send appends exactly one message with status sent at the
\* end of the conversation keyed by generateConversationId(senderId,
\* recipientId), creates that conversation after the existing ones if it is
\* absent, and changes no other conversation.
C3_MessageSendAppends ==
    [][\A c \in MsgConns, d \in MsgSendData :
           handleMessageSend(c, d) =>
               LET key == generateConversationId(d.senderId, d.recipientId)
               IN  IF \E i \in 1..Len(messages) :
                          messages[i].conversationId = key
                   THEN /\ Len(messages') = Len(messages)
                        /\ \A i \in 1..Len(messages) :
                               messages'[i] =
                                   IF messages[i].conversationId = key
                                   THEN [conversationId |-> key,
                                         messages |->
                                             Append(messages[i].messages,
                                                    MessageOf(d))]
                                   ELSE messages[i]
                   ELSE messages' =
                            Append(messages,
                                   [conversationId |-> key,
                                    messages |-> <<MessageOf(d)>>])
      ]_vars

\* C3 witness: the scenario of the claim. "a" and "b" have authenticated,
\* "a" -> "b" m1 was sent, and the store is one bucket keyed sha256("ab")
\* holding that one message with status sent.
C3_Witness ==
    /\ currentSessionId[1] = A /\ currentSessionId[2] = B
    /\ readyState[1] = "OPEN" /\ readyState[2] = "OPEN"
    /\ messages = << [conversationId |-> [sha256 |-> <<1, 2>>],
                      messages |-> << [id |-> "m1", senderId |-> A,
                                       recipientId |-> B, content |-> "hi",
                                       status |-> "sent"] >>] >>
    /\ Len(out[2]) = 1

\* C4: for every message_send, one message_received frame carrying the
\* message is written to the connection registered for recipientId if that
\* connection is open, and nothing is written to any other connection; the
\* sending connection gets no frame unless it is itself that connection.
C4_MessageReceivedToRecipientOnly ==
    [][\A c \in MsgConns, d \in MsgSendData :
           handleMessageSend(c, d) =>
               \A k \in Conns :
                   out'[k] =
                       IF k = clients[d.recipientId] /\ readyState[k] = "OPEN"
                       THEN << [type |-> "message_received",
                                data |-> MessageOf(d)] >>
                       ELSE <<>>
      ]_vars

\* C4 witness: the connection of "a" sent a message to "b"; the connection
\* of "b" got the message_received frame and the sending one got nothing.
C4_Witness ==
    /\ currentSessionId[1] = A /\ clients[A] = 1
    /\ clients[B] = 2
    /\ out[1] = <<>>
    /\ out[2] = << [type |-> "message_received",
                    data |-> [id |-> "m2", senderId |-> A, recipientId |-> B,
                              content |-> "hi", status |-> "sent"]] >>

\* the stored message at position j of conversation i is the one a
\* message_read of its id resolves to: no message stored in an earlier
\* conversation, or earlier in the same conversation, carries the same id
ResolvesTo(i, j) ==
    /\ \A k \in 1..(i - 1) : \A l \in 1..Len(messages[k].messages) :
           messages[k].messages[l].id # messages[i].messages[j].id
    /\ \A l \in 1..(j - 1) :
           messages[i].messages[l].id # messages[i].messages[j].id

C6_DeriveSymmetric ==
    /\ [](derived.forward # NotCalled /\ derived.backward # NotCalled
             => derived.forward = derived.backward)
    /\ [][/\ derived.forward # NotCalled
             => derived'.forward = derived.forward
          /\ derived.backward # NotCalled
             => derived'.backward = derived.backward]_vars

\* C6 witness: both argument orders were called on "b" and "ab", which the
\* sort has to swap in one of the two calls.
C6_Witness ==
    /\ derived.sessionId1 = <<2>> /\ derived.sessionId2 = <<1, 2>>
    /\ derived.forward = [sha256 |-> <<1, 2, 2>>]
    /\ derived.backward = [sha256 |-> <<1, 2, 2>>]

\* number of frames equal to e in the sequence of frames seq
Count(seq, e) == Cardinality({k \in 1..Len(seq) : seq[k] = e})

\* C7: the status of a stored invitation changes only from pending to
\* accepted, declined or expired; once it has left pending it never changes
\* again and never returns to pending. (A step that sends the same id
\* again stores a new invitation and is not counted as a change of the old
\* one.)
C7_StatusOnlyLeavesPending ==
    [][\A i \in 1..Len(invitations) :
           (~ \E c \in MsgConns, d \in InvSendData :
                  d.id = invitations[i].id /\ handleInvitationSend(c, d))
           => /\ i <= Len(invitations')
              /\ invitations'[i].id = invitations[i].id
              /\ invitations'[i].status # invitations[i].status =>
                     /\ invitations[i].status = "pending"
                     /\ invitations'[i].status \in
                            {"accepted", "declined", "expired"}
      ]_vars

\* C8: a sweeper tick sets an invitation that is pending and past its expiry
\* to expired and writes exactly one invitation_response with status expired
\* for it to its sender and to its recipient (distinct sessions on distinct
\* open connections); a later tick writes no further such frame for an
\* invitation that is already expired, so that each receives exactly one
\* over the whole run.
C8_ExpiredAnnouncedOnce ==
    [][sweeper =>
           \A i \in 1..Len(invitations) :
               LET inv == invitations[i]
                   s == clients[inv.senderId]
                   r == clients[inv.recipientId]
                   response == [type |-> "invitation_response",
                                data |-> [inv EXCEPT !.status = "expired"]]
               IN  (/\ inv.senderId # inv.recipientId
                    /\ s # NoConn /\ r # NoConn /\ s # r
                    /\ readyState[s] = "OPEN" /\ readyState[r] = "OPEN")
                   => /\ (inv.status = "pending" /\ inv.expiresAt < now')
                          => /\ invitations'[i].status = "expired"
                             /\ Count(out'[s], response) = 1
                             /\ Count(out'[r], response) = 1
                      /\ inv.status = "expired"
                          => /\ Count(out'[s], response) = 0
                             /\ Count(out'[r], response) = 0
      ]_vars

\* C9: a sweeper tick neither modifies nor announces an invitation whose
\* status is not pending at the time of the tick (accepted, declined or
\* already expired), even when its expiry time has passed.
C9_SweeperOnlyPending ==
    [][sweeper =>
           \A i \in 1..Len(invitations) :
               invitations[i].status # "pending" =>
                   /\ invitations'[i] = invitations[i]
                   /\ \A k \in Conns : \A n \in 1..Len(out'[k]) :
                          out'[k][n].data.id # invitations[i].id
      ]_vars

\* the Invitation object handleInvitationSend builds from its payload at
\* time t
InvitationOf(d, t) ==
    [id |-> d.id, senderId |-> d.senderId, recipientId |-> d.recipientId,
     status |-> "pending", createdAt |-> t,
     expiresAt |-> t + INVITATION_EXPIRY]

\* C10: invitation_send stores, under the given id and under no second
\* entry, an invitation with status pending and expiry timestamp equal to
\* its creation time plus the configured TTL, and writes one
\* invitation_received frame to the connection registered for recipientId
\* if it is open and nothing to any other connection.
C10_InvitationSendStoresPending ==
    [][\A c \in MsgConns, d \in InvSendData :
           handleInvitationSend(c, d) =>
               /\ \E i \in 1..Len(invitations') :
                      invitations'[i] = InvitationOf(d, now)
               /\ \A i, j \in 1..Len(invitations') :
                      invitations'[i].id = invitations'[j].id => i = j
               /\ \A k \in Conns :
                      out'[k] =
                          IF k = clients[d.recipientId]
                             /\ readyState[k] = "OPEN"
                          THEN << [type |-> "invitation_received",
                                   data |-> InvitationOf(d, now)] >>
                          ELSE <<>>
      ]_vars

\* C10 witness: at time 1 the connection of "a" sent invitation i1 to "b";
\* the record is stored pending with expiry 1 + TTL, the connection of "b"
\* holds the invitation_received frame and the sending one holds nothing.
C10_Witness ==
    /\ now = 1
    /\ currentSessionId[1] = A /\ clients[A] = 1 /\ clients[B] = 2
    /\ \E i \in 1..Len(invitations) :
           invitations[i] = [id |-> "i1", senderId |-> A, recipientId |-> B,
                             status |-> "pending", createdAt |-> 1,
                             expiresAt |-> 1 + INVITATION_EXPIRY]
    /\ out[1] = <<>>
    /\ Len(out[2]) = 1
    /\ out[2][1].type = "invitation_received"
    /\ out[2][1].data.id = "i1"

\* the effect claimed for a response with the given status to the stored
\* invitation d.invitationId: that invitation, at its position, carries the
\* status, nothing else in the store differs, and the one
\* invitation_response frame is on the open connection registered for its
\* senderId, every other connection having no frame
Responded(d, status) ==
    \A i \in 1..Len(invitations) :
        invitations[i].id = d.invitationId =>
            LET updated == [invitations[i] EXCEPT !.status = status]
            IN  /\ Len(invitations') = Len(invitations)
                /\ invitations'[i] = updated
                /\ \A j \in 1..Len(invitations) :
                       j # i => invitations'[j] = invitations[j]
                /\ \A k \in Conns :
                       out'[k] =
                           IF k = clients[updated.senderId]
                              /\ readyState[k] = "OPEN"
                           THEN << [type |-> "invitation_response",
                                    data |-> updated] >>
                           ELSE <<>>

\* C11: invitation_accept (respectively invitation_decline) of an id that is
\* in the store sets that invitation to accepted (respectively declined),
\* leaves every other invitation as it was, and writes exactly one
\* invitation_response carrying the updated invitation to the open
\* connection registered for its senderId and no frame to any other
\* connection.
C11_ResponseUpdatesOneAndNotifiesSender ==
    [][\A c \in MsgConns, d \in InvitationData :
           /\ handleInvitationAccept(c, d) => Responded(d, "accepted")
           /\ handleInvitationDecline(c, d) => Responded(d, "declined")
      ]_vars

\* C11 witness: i1 and i2 are stored, "b" declined i2 on its connection,
\* i1 is still pending, and the connection of "a" holds the one
\* invitation_response frame while that of "b" holds none.
C11_Witness ==
    /\ clients[A] = 1 /\ readyState[1] = "OPEN"
    /\ clients[B] = 2 /\ readyState[2] = "OPEN"
    /\ Len(invitations) = 2
    /\ invitations[1].id = "i1" /\ invitations[1].status = "pending"
    /\ invitations[2].id = "i2" /\ invitations[2].status = "declined"
    /\ out[1] = << [type |-> "invitation_response",
                    data |-> invitations[2]] >>
    /\ out[2] = <<>>

\* the effect claimed for a response to an id that is not in the store:
\* one error frame on the calling connection c, no frame elsewhere, and the
\* registry, the invitation store and the conversation store as they were
NotFound(c) ==
    /\ \A k \in Conns :
           out'[k] =
               IF k = c
               THEN << [type |-> "error",
                        data |-> [message |-> "Invitation not found"]] >>
               ELSE <<>>
    /\ invitations' = invitations
    /\ clients' = clients
    /\ messages' = messages

\* C12: invitation_accept, and likewise invitation_decline, of an id that
\* is not in the invitation store writes exactly one error frame to the
\* calling connection and nothing to any other, creates no invitation, and
\* leaves the registry, the invitation store and the conversation store
\* unchanged.
C12_UnknownInvitationOnlyErrors ==
    [][\A c \in MsgConns, d \in InvitationData :
           (\A i \in 1..Len(invitations) :
                invitations[i].id # d.invitationId)
           => /\ handleInvitationAccept(c, d) => NotFound(c)
              /\ handleInvitationDecline(c, d) => NotFound(c)
      ]_vars

\* C12 witness: only i1 is stored, still pending, and the connection of "b"
\* holds the error frame of a response to another id while the connection
\* of "a" holds nothing.
C12_Witness ==
    /\ clients[A] = 1 /\ readyState[1] = "OPEN"
    /\ clients[B] = 2 /\ readyState[2] = "OPEN"
    /\ Len(invitations) = 1
    /\ invitations[1].id = "i1" /\ invitations[1].status = "pending"
    /\ out[2] = << [type |-> "error",
                    data |-> [message |-> "Invitation not found"]] >>
    /\ out[1] = <<>>

\* a presence frame of the given type about session S
PresenceOf(type, S) == [type |-> type, data |-> [sessionId |-> S]]

\* C13: when the connection the registry holds for a session S closes,
\* every other session T that is registered on another, open connection
\* receives exactly one contact_offline frame with sessionId = S if a
\* conversation between S and T exists, and no frame at all if none does.
C13_CloseNotifiesContactsOnce ==
    [][\A c \in MsgConns, S \in SessionIds :
           (close(c) /\ clients[S] = c) =>
               \A T \in SessionIds \ {S} :
                   LET k == clients[T]
                   IN  (k # NoConn /\ k # c /\ readyState[k] = "OPEN") =>
                           out'[k] =
                               IF MessagesHas(messages,
                                      generateConversationId(S, T))
                               THEN << PresenceOf("contact_offline", S) >>
                               ELSE <<>>
      ]_vars

\* C14: a successful auth of session S on connection c writes one
\* contact_online frame with sessionId = S for each other registered
\* session T (T # S) that has a conversation with S, to the open connection
\* registered for T, and no other frame: the connection of S itself gets
\* none for S, and no connection gets one for a session without a
\* conversation with S.
C14_AuthNotifiesOtherContactsOnly ==
    [][\A c \in MsgConns, S \in SessionIds :
           handleAuth(c, [sessionId |-> S]) =>
               \A k \in Conns :
                   /\ \A n \in 1..Len(out'[k]) :
                          out'[k][n] = PresenceOf("contact_online", S)
                   /\ Len(out'[k]) =
                          Cardinality(
                              {T \in SessionIds \ {S} :
                                   /\ clients'[T] = k
                                   /\ readyState[k] = "OPEN"
                                   /\ MessagesHas(messages,
                                          generateConversationId(S, T))})
      ]_vars

\* C15: a close of connection c, or a transport error on c, does not affect
\* any other connection: every session registered to another connection is
\* registered to that same connection afterwards, and that connection is
\* in the readyState it had, so that frames addressed to the session are
\* still written to it.
C15_CloseLeavesOtherConnections ==
    [][\A c \in Conns :
           (close(c) \/ error(c)) =>
               \A S \in SessionIds :
                   (clients[S] # NoConn /\ clients[S] # c) =>
                       /\ clients'[S] = clients[S]
                       /\ readyState'[clients[S]] = readyState[clients[S]]
      ]_vars

\* C16: in every reachable state each handle stored in the registry is a
\* connection that has not closed, so that the number of registry entries
\* counts live connections only.
C16_RegistryHoldsLiveConnections ==
    \A S \in SessionIds :
        clients[S] # NoConn => readyState[clients[S]] # "CLOSED"

\* C17: after the first valid auth of a connection, a later auth event on
\* it does not change its session id, adds no registry entry and starts no
\* further keep-alive interval.
C17_AuthenticatesAtMostOnce ==
    [][\A c \in Conns, data \in AuthData :
           (handleAuth(c, data) /\ currentSessionId[c] # NULL) =>
               /\ currentSessionId'[c] = currentSessionId[c]
               /\ clients' = clients
               /\ activeTimers'[c] = activeTimers[c]
      ]_vars

\* C18: the status of every stored message is sent or read; a message is
\* sent when it is appended; and a stored message whose status is read
\* never has status sent afterwards.
C18_MessageStatusSentThenRead ==
    /\ [](\A i \in 1..Len(messages) :
              \A j \in 1..Len(messages[i].messages) :
                  messages[i].messages[j].status \in {"sent", "read"})
    /\ [][\A i \in 1..Len(messages') :
              \A j \in 1..Len(messages'[i].messages) :
                  IF i <= Len(messages) /\ j <= Len(messages[i].messages)
                  THEN messages[i].messages[j].status = "read"
                           => messages'[i].messages[j].status = "read"
                  ELSE messages'[i].messages[j].status = "sent"
         ]_vars

\* C18 witness: m1 was sent and marked read, and m2 was then appended
\* behind it by a later message_send: m1 is still read, m2 is sent, and
\* the frame of that message_send is the last one written.
C18_Witness ==
    /\ Len(messages) = 1
    /\ Len(messages[1].messages) = 2
    /\ messages[1].messages[1].id = "m1"
    /\ messages[1].messages[1].status = "read"
    /\ messages[1].messages[2].id = "m2"
    /\ messages[1].messages[2].status = "sent"
    /\ \E k \in MsgConns :
           /\ Len(out[k]) = 1
           /\ out[k][1].type = "message_received"
           /\ out[k][1].data.id = "m2"

\* C19: a message_read of an id that resolves to a stored message whose
\* status is already read leaves the conversation store unchanged and
\* writes no message_status frame to any connection.
C19_RemarkingIsIdempotent ==
    [][\A c \in MsgConns, d \in MessageReadData :
           handleMessageRead(c, d) =>
               \A i \in 1..Len(messages) :
                   \A j \in 1..Len(messages[i].messages) :
                       (/\ messages[i].messages[j].id = d.messageId
                        /\ ResolvesTo(i, j)
                        /\ messages[i].messages[j].status = "read")
                       => /\ messages' = messages
                          /\ out' = NoOut
      ]_vars

\* the identity of a stored message: its fields other than the status
Identity(m) ==
    [id |-> m.id, senderId |-> m.senderId, recipientId |-> m.recipientId,
     content |-> m.content]

\* C20: the sequence of each conversation only grows by appending at its
\* end: in every step each conversation keeps its key and its position in
\* the store, the messages it held stay at their positions with their
\* identity, and a message_send puts its message last, so that the order
\* of a conversation is the order in which its message_send events were
\* processed.
C20_ConversationsAppendOnly ==
    [][/\ \A i \in 1..Len(messages) :
              /\ i <= Len(messages')
              /\ messages'[i].conversationId = messages[i].conversationId
              /\ Len(messages'[i].messages) >= Len(messages[i].messages)
              /\ \A j \in 1..Len(messages[i].messages) :
                     Identity(messages'[i].messages[j]) =
                         Identity(messages[i].messages[j])
       /\ \A c \in MsgConns, d \in MsgSendData :
              handleMessageSend(c, d) =>
                  \E i \in 1..Len(messages') :
                      LET conversation == messages'[i].messages
                      IN  /\ conversation[Len(conversation)] = MessageOf(d)
                          /\ \A k \in 1..Len(messages') \ {i} :
                                 k <= Len(messages)
                                 /\ messages'[k] = messages[k]
      ]_vars

\* C20 witness: "a" sent m2 and then "b" sent m1 in the same conversation;
\* the conversation holds m2 before m1, the order of processing and not
\* the order of the ids.
C20_Witness ==
    /\ Len(messages) = 1
    /\ Len(messages[1].messages) = 2
    /\ messages[1].messages[1].id = "m2"
    /\ messages[1].messages[1].senderId = A
    /\ messages[1].messages[2].id = "m1"
    /\ messages[1].messages[2].senderId = B
    /\ clients[A] = 1 /\ readyState[1] = "OPEN"
    /\ Len(out[1]) = 1 /\ out[1][1].type = "message_received"
    /\ out[1][1].data.id = "m1"

\* the unordered pair of session identifiers of a message
PairOf(m) == {m.senderId, m.recipientId}

\* some stored message was exchanged between the sessions S and T
Exchanged(S, T) ==
    \E i \in 1..Len(messages) : \E j \in 1..Len(messages[i].messages) :
        PairOf(messages[i].messages[j]) = {S, T}

\* C21: each conversation holds the history of exactly one pair of session
\* identifiers (the digest being injective): all messages of a bucket have
\* the same unordered pair {senderId, recipientId}, and a presence frame
\* about session S is written only to connections registered for a session
\* that exchanged a message with S.
C21_OnePairPerConversation ==
    /\ [](\A i \in 1..Len(messages) :
              \A j, k \in 1..Len(messages[i].messages) :
                  PairOf(messages[i].messages[j]) =
                      PairOf(messages[i].messages[k]))
    /\ [][\A c \in MsgConns :
              (close(c) \/ \E data \in AuthData : handleAuth(c, data)) =>
                  \A k \in Conns : \A n \in 1..Len(out'[k]) :
                      out'[k][n].type \in {"contact_online", "contact_offline"}
                      => \E T \in SessionIds :
                             /\ clients'[T] = k
                             /\ Exchanged(out'[k][n].data.sessionId, T)
         ]_vars

\* session S has no registry entry or its registered connection is not open
Unreachable(S) == clients[S] = NoConn \/ readyState[clients[S]] # "OPEN"

\* C22: delivery never queues. A frame addressed to a session that has no
\* registry entry, or whose registered connection is not open, is dropped:
\* the step writes nothing, and the store change of the operation happens
\* all the same; every operation writes its frame at most once, in its own
\* step; and a later auth or connection writes none of the dropped frames
\* (an auth writes contact_online or error frames only, a new connection
\* nothing).
C22_DeliveryNeverQueues ==
    [][/\ \A c \in MsgConns, d \in MsgSendData :
              handleMessageSend(c, d) =>
                  /\ TotalMessages(messages') = TotalMessages(messages) + 1
                  /\ \A k \in Conns : Len(out'[k]) <= 1
                  /\ Unreachable(d.recipientId) => out' = NoOut
       /\ \A c \in MsgConns, d \in MessageReadData :
              handleMessageRead(c, d) =>
                  /\ \A k \in Conns : Len(out'[k]) <= 1
                  /\ \A i \in 1..Len(messages) :
                         \A j \in 1..Len(messages[i].messages) :
                             (/\ messages[i].messages[j].id = d.messageId
                              /\ ResolvesTo(i, j)
                              /\ Unreachable(messages[i].messages[j].senderId))
                             => /\ out' = NoOut
                                /\ messages'[i].messages[j].status = "read"
       /\ \A c \in MsgConns, data \in AuthData :
              handleAuth(c, data) =>
                  \A k \in Conns : \A n \in 1..Len(out'[k]) :
                      out'[k][n].type \in {"contact_online", "error"}
       /\ \A c \in MsgConns : connection(c) => out' = NoOut
      ]_vars

\* C22 witness: "a" sent m1 to "b" while "b" had no registry entry, the
\* message is stored, and "b" has now authenticated on connection 2: the
\* auth wrote contact_online to the connection of "a" and nothing, the
\* dropped message_received included, to the connection of "b".
C22_Witness ==
    /\ currentSessionId[1] = A /\ clients[A] = 1 /\ readyState[1] = "OPEN"
    /\ currentSessionId[2] = B /\ clients[B] = 2 /\ readyState[2] = "OPEN"
    /\ Len(messages) = 1
    /\ messages[1].messages = << [id |-> "m1", senderId |-> A,
                                  recipientId |-> B, content |-> "hi",
                                  status |-> "sent"] >>
    /\ out[1] = << [type |-> "contact_online",
                    data |-> [sessionId |-> B]] >>
    /\ out[2] = <<>>

\* C23: an auth event whose sessionId is missing or empty writes one error
\* frame to the calling connection and changes no state: the registry and
\* the session id of the connection are as before, no keep-alive interval
\* is started and no contact_online frame is written.
C23_EmptyAuthOnlyErrors ==
    [][\A c \in Conns :
           handleAuth(c, [sessionId |-> EMPTY]) =>
               /\ \A k \in Conns :
                      out'[k] =
                          IF k = c
                          THEN << [type |-> "error",
                                   data |-> [message |->
                                                 "Session ID is required"]] >>
                          ELSE <<>>
               /\ clients' = clients
               /\ currentSessionId' = currentSessionId
               /\ activeTimers' = activeTimers
               /\ heartbeatTimer' = heartbeatTimer
      ]_vars

\* C23 witness: connection 2, open and never authenticated, holds the error
\* frame of an auth without sessionId; it has no session id, no keep-alive
\* interval and no registry entry, while "a" is registered on connection 1.
C23_Witness ==
    /\ clients[A] = 1 /\ readyState[1] = "OPEN"
    /\ readyState[2] = "OPEN"
    /\ currentSessionId[2] = NULL
    /\ activeTimers[2] = 0 /\ ~ heartbeatTimer[2]
    /\ \A S \in SessionIds : clients[S] # 2
    /\ out[2] = << [type |-> "error",
                    data |-> [message |-> "Session ID is required"]] >>
    /\ out[1] = <<>>

\* the registry, the invitation store and the conversation store are as
\* they were
StoresUnchanged ==
    /\ clients' = clients
    /\ invitations' = invitations
    /\ messages' = messages

\* the only frame written in the step is the given frame, on connection c
OnlyTo(c, frame) ==
    \A k \in Conns : out'[k] = IF k = c THEN << frame >> ELSE <<>>

\* C24: an inbound frame that does not parse makes the server write exactly
\* one error frame to the originating connection and nothing to any other,
\* without changing the registry, the invitation store or the conversation
\* store; the connection stays open with the session id it had, which is
\* all that the handlers of later events depend on.
C24_ParseErrorOnlyErrors ==
    [][\A c \in MsgConns :
           messageParseError(c) =>
               /\ OnlyTo(c, [type |-> "error",
                             data |-> [message |-> "Invalid message format"]])
               /\ StoresUnchanged
               /\ readyState'[c] = "OPEN"
               /\ currentSessionId'[c] = currentSessionId[c]
      ]_vars

\* C24 witness: "a" is registered on connection 1, a message and an
\* invitation are stored, and connection 1, still open and still "a", holds
\* the error frame of an unparseable frame while connection 2 holds
\* nothing.
C24_Witness ==
    /\ clients[A] = 1 /\ currentSessionId[1] = A /\ readyState[1] = "OPEN"
    /\ readyState[2] = "OPEN"
    /\ Len(messages) = 1 /\ Len(invitations) = 1
    /\ out[1] = << [type |-> "error",
                    data |-> [message |-> "Invalid message format"]] >>
    /\ out[2] = <<>>

\* C25: an event of a type that has required fields, received with a
\* required field missing (auth without sessionId, message_read without
\* messageId, invitation_accept or invitation_decline without
\* invitationId, or any of them without data), makes the server write an
\* error frame to the originating connection, which stays open.
C25_MissingFieldErrors ==
    [][\A c \in MsgConns :
           (\/ handleAuth(c, [sessionId |-> EMPTY])
            \/ handleMessageRead(c, [messageId |-> UNDEFINED])
            \/ handleInvitationAccept(c, [invitationId |-> UNDEFINED])
            \/ handleInvitationDecline(c, [invitationId |-> UNDEFINED])
            \/ messageNoData(c))
           => /\ \E n \in 1..Len(out'[c]) : out'[c][n].type = "error"
              /\ readyState'[c] = "OPEN"
      ]_vars

\* C26: a message_read whose messageId is the id of no stored message
\* writes no frame to any connection and leaves every store unchanged.
C26_UnmatchedReadIsSilent ==
    [][\A c \in MsgConns, d \in MessageReadData :
           (/\ handleMessageRead(c, d)
            /\ \A i \in 1..Len(messages) :
                   \A j \in 1..Len(messages[i].messages) :
                       messages[i].messages[j].id # d.messageId)
           => /\ out' = NoOut
              /\ StoresUnchanged
      ]_vars

\* C26 witness: "a" and "b" are online, the store holds m1 alone, still
\* sent, and no connection holds a frame: the state after a message_read
\* of m2.
C26_Witness ==
    /\ clients[A] = 1 /\ readyState[1] = "OPEN"
    /\ clients[B] = 2 /\ readyState[2] = "OPEN"
    /\ Len(messages) = 1
    /\ messages[1].messages = << [id |-> "m1", senderId |-> A,
                                  recipientId |-> B, content |-> "hi",
                                  status |-> "sent"] >>
    /\ out = NoOut

\* C27: a connection that has closed has no keep-alive interval left
\* running, whatever number of auth events it processed.
C27_NoTimerAfterClose ==
    \A c \in Conns : readyState[c] = "CLOSED" => activeTimers[c] = 0

\* C28: typing_indicator changes no store and writes exactly one
\* typing_indicator frame, to the connection registered for recipientId if
\* it is open and to no other; its sessionId is the session id of the
\* sending connection (null before its auth), not the sessionId of the
\* payload, and its isTyping is the flag of the payload.
C28_TypingForwardsOwnSession ==
    [][\A c \in MsgConns, d \in DispTypingData :
           handleTypingIndicator(c, d) =>
               /\ StoresUnchanged
               /\ \A k \in Conns :
                      out'[k] =
                          IF k = clients[d.recipientId]
                             /\ readyState[k] = "OPEN"
                          THEN << [type |-> "typing_indicator",
                                   data |-> [sessionId |->
                                                 currentSessionId[c],
                                             isTyping |-> d.isTyping]] >>
                          ELSE <<>>
      ]_vars

\* C28 witness: connection 1 never authenticated, "b" is registered on
\* connection 2 and holds the typing_indicator frame sent from connection
\* 1, whose sessionId is null whatever the payload named.
C28_Witness ==
    /\ readyState[1] = "OPEN" /\ currentSessionId[1] = NULL
    /\ clients[B] = 2 /\ readyState[2] = "OPEN"
    /\ out[2] = << [type |-> "typing_indicator",
                    data |-> [sessionId |-> NULL, isTyping |-> TRUE]] >>
    /\ out[1] = <<>>

\* C29: a ping, on an authenticated or unauthenticated connection, makes
\* the server write exactly one pong to that connection, nothing to any
\* other connection, and changes no store.
C29_PingPongsCaller ==
    [][\A c \in MsgConns :
           messagePing(c) =>
               /\ OnlyTo(c, [type |-> "pong"])
               /\ StoresUnchanged
      ]_vars

\* C29 witness: connection 2 never authenticated and holds the one pong,
\* while connection 1, registered for "a", holds nothing and the stores
\* hold a message and an invitation.
C29_Witness ==
    /\ clients[A] = 1 /\ readyState[1] = "OPEN"
    /\ readyState[2] = "OPEN" /\ currentSessionId[2] = NULL
    /\ Len(messages) = 1 /\ Len(invitations) = 1
    /\ out[2] = << [type |-> "pong"] >>
    /\ out[1] = <<>>

\* C30: a well-formed event whose type has no case in the dispatcher writes
\* no frame, to the caller or to any other connection, and changes neither
\* the registry, the invitation store, the conversation store nor the
\* session id of the connection.
C30_UnknownTypeIgnored ==
    [][\A c \in MsgConns :
           messageDefault(c) =>
               /\ out' = NoOut
               /\ StoresUnchanged
               /\ currentSessionId' = currentSessionId
      ]_vars

\* C30 witness: both connections are open and authenticated, a message and
\* an invitation are stored, and no connection holds a frame: the state
\* after an event of an unknown type.
C30_Witness ==
    /\ clients[A] = 1 /\ currentSessionId[1] = A /\ readyState[1] = "OPEN"
    /\ clients[B] = 2 /\ currentSessionId[2] = B /\ readyState[2] = "OPEN"
    /\ Len(messages) = 1 /\ Len(invitations) = 1
    /\ invitations[1].status = "accepted"
    /\ out = NoOut

\* C31: stale-close eviction. When connection c1, authenticated as S,
\* closes while the registry holds another, open connection c2 for S, the
\* entry of S is removed and contact_offline for S is written to the open
\* connection of every registered session that has a conversation with S;
\* and as long as S has no registry entry a message_send addressed to S
\* writes no frame, although a connection authenticated as S is open.
C31_StaleCloseEvicts ==
    [][/\ \A c1, c2 \in Conns, S \in MsgSessions :
              (/\ close(c1)
               /\ currentSessionId[c1] = S
               /\ c2 # c1 /\ clients[S] = c2 /\ readyState[c2] = "OPEN")
              => /\ clients'[S] = NoConn
                 /\ readyState'[c2] = "OPEN"
                 /\ \A T \in MsgSessions \ {S} :
                        (/\ clients[T] # NoConn
                         /\ readyState'[clients[T]] = "OPEN"
                         /\ MessagesHas(messages,
                                generateConversationId(S, T)))
                        => Count(out'[clients[T]],
                                 PresenceOf("contact_offline", S)) = 1
       /\ \A c \in Conns, d \in StaleSendData :
              (handleMessageSend(c, d) /\ clients[d.recipientId] = NoConn)
              => out' = NoOut
      ]_vars

\* C31 witness: connections 1 and 2 authenticated as "a" and connection 3
\* as "b", "a" and "b" have a conversation, connection 1 has closed while
\* connection 2 is open: "a" has no registry entry and connection 3 holds
\* the contact_offline frame for "a".
C31_Witness ==
    /\ currentSessionId[1] = A /\ readyState[1] = "CLOSED"
    /\ currentSessionId[2] = A /\ readyState[2] = "OPEN"
    /\ currentSessionId[3] = B /\ readyState[3] = "OPEN" /\ clients[B] = 3
    /\ clients[A] = NoConn
    /\ MessagesHas(messages, generateConversationId(A, B))
    /\ out[3] = << PresenceOf("contact_offline", A) >>
    /\ out[2] = <<>>

\* the effect claimed for a response with the given status to an
\* invitation that has left pending: the status is overwritten, no error
\* frame is written to the caller c, and the open connection registered
\* for the sender holds the invitation_response with the new status
Overwritten(c, d, status) ==
    \A i \in 1..Len(invitations) :
        (/\ invitations[i].id = d.invitationId
         /\ invitations[i].status \in {"accepted", "declined", "expired"})
        => LET updated == [invitations[i] EXCEPT !.status = status]
               s == clients[updated.senderId]
           IN  /\ invitations'[i] = updated
               /\ \A n \in 1..Len(out'[c]) : out'[c][n].type # "error"
               /\ (s # NoConn /\ readyState[s] = "OPEN")
                      => out'[s] = << [type |-> "invitation_response",
                                       data |-> updated] >>

\* C32: invitation_accept or invitation_decline of an invitation whose
\* status is accepted, declined or expired is not rejected: the status is
\* overwritten with accepted (respectively declined) and another
\* invitation_response is written to the sender of the invitation.
C32_ResponseAfterPendingOverwrites ==
    [][\A c \in MsgConns, d \in InvitationData :
           /\ handleInvitationAccept(c, d) => Overwritten(c, d, "accepted")
           /\ handleInvitationDecline(c, d) => Overwritten(c, d, "declined")
      ]_vars

\* C32 witness: i1, created at time 0, was expired by the tick of time 2,
\* which announced it to "a"; at time 2 it is accepted and the connection
\* of "a" holds a second invitation_response, now with status accepted.
C32_Witness ==
    /\ now = 2
    /\ clients[A] = 1 /\ readyState[1] = "OPEN"
    /\ Len(invitations) = 1
    /\ invitations[1] = [id |-> "i1", senderId |-> A, recipientId |-> B,
                         status |-> "accepted", createdAt |-> 0,
                         expiresAt |-> INVITATION_EXPIRY]
    /\ out[1] = << [type |-> "invitation_response",
                    data |-> invitations[1]] >>

\* C34: a sweeper tick never expires an invitation early: an invitation
\* whose expiry timestamp is not strictly earlier than the time of the tick
\* keeps its record and no frame about it is written by the tick.
C34_SweeperNeverEarly ==
    [][sweeper =>
           \A i \in 1..Len(invitations) :
               ~ (invitations[i].expiresAt < now') =>
                   /\ invitations'[i] = invitations[i]
                   /\ \A k \in Conns : \A n \in 1..Len(out'[k]) :
                          out'[k][n].data.id # invitations[i].id
      ]_vars

\* C34 witness: i1 was created at time 0 with expiry time 1, the tick of
\* time 1 has run with "a" and "b" online, and i1 is still pending and no
\* frame was written.
C34_Witness ==
    /\ now = 1
    /\ clients[A] = 1 /\ readyState[1] = "OPEN"
    /\ clients[B] = 2 /\ readyState[2] = "OPEN"
    /\ Len(invitations) = 1
    /\ invitations[1] = [id |-> "i1", senderId |-> A, recipientId |-> B,
                         status |-> "pending", createdAt |-> 0,
                         expiresAt |-> 1]
    /\ out = NoOut

\* the ids of the stored invitations
InvitationKeys(invs) == {invs[i].id : i \in 1..Len(invs)}

\* C35: invitation records are never deleted but can be replaced: an
\* invitation_send whose id is in the store puts, in the place of the
\* record of that id, a new record of the payload with status pending and
\* expiry computed from the current time, whatever the status, sender and
\* recipient of the old record; and in no step does an id leave the store.
C35_ResendReplacesRecord ==
    [][/\ \A i \in 1..Len(invitations) :
              \A c \in MsgConns, d \in ResendData :
                  (d.id = invitations[i].id /\ handleInvitationSend(c, d))
                  => /\ Len(invitations') = Len(invitations)
                     /\ invitations'[i] = InvitationOf(d, now)
       /\ InvitationKeys(invitations) \subseteq InvitationKeys(invitations')
       /\ Len(invitations') >= Len(invitations)
      ]_vars

\* C35 witness: i1 was stored before i2 and carries a later creation time
\* than i2: it was sent again, at time 2 and from "b" to "a", and the new
\* record, pending with expiry 2 + TTL, stands in the place of the old one.
C35_Witness ==
    /\ now = 2
    /\ Len(invitations) = 2
    /\ invitations[1] = [id |-> "i1", senderId |-> B, recipientId |-> A,
                         status |-> "pending", createdAt |-> 2,
                         expiresAt |-> 2 + INVITATION_EXPIRY]
    /\ invitations[2].id = "i2"
    /\ invitations[2].createdAt = 0
    /\ invitations[2].status = "expired"

\* number of frames written to all connections in the step
FramesWritten == LET RECURSIVE Sum(_)
                     Sum(S) == IF S = {} THEN 0
                               ELSE LET k == CHOOSE x \in S : TRUE
                                    IN  Len(out'[k]) + Sum(S \ {k})
                 IN  Sum(Conns)

\* C33: a message_read changes the status of at most one stored message
\* and writes at most one message_status frame: when several stored
\* messages carry the id, only the first match (conversations in creation
\* order, messages in send order) is marked and only the connection
\* registered for its senderId gets a frame; every other message is as it
\* was.
C33_ReadMarksFirstMatchOnly ==
    [][\A c \in MsgConns, d \in MessageReadData :
           handleMessageRead(c, d) =>
               /\ FramesWritten <= 1
               /\ Len(messages') = Len(messages)
               /\ \A i \in 1..Len(messages) :
                      \A j \in 1..Len(messages[i].messages) :
                          IF messages[i].messages[j].id = d.messageId
                             /\ ResolvesTo(i, j)
                          THEN \A k \in Conns :
                                   out'[k] # <<>> =>
                                       k = clients[messages[i].messages[j]
                                                       .senderId]
                          ELSE messages'[i].messages[j] =
                                   messages[i].messages[j]
      ]_vars

\* C33 witness: "a" sent m1 to itself and then "b" sent another m1 to "a";
\* after a message_read of m1 the first is read, the second, in the later
\* conversation, is still sent, and only the connection of "a", the sender
\* of the first, holds a message_status frame.
C33_Witness ==
    /\ clients[A] = 1 /\ readyState[1] = "OPEN"
    /\ clients[B] = 2 /\ readyState[2] = "OPEN"
    /\ Len(messages) = 2
    /\ messages[1].messages = << [id |-> "m1", senderId |-> A,
                                  recipientId |-> A, content |-> "hi",
                                  status |-> "read"] >>
    /\ messages[2].messages = << [id |-> "m1", senderId |-> B,
                                  recipientId |-> A, content |-> "hi",
                                  status |-> "sent"] >>
    /\ out[1] = << [type |-> "message_status",
                    data |-> [messageId |-> "m1", status |-> "read"]] >>
    /\ out[2] = <<>>

\* C36: in every reachable state each connection has at most one
\* keep-alive interval running, so that an open connection gets at most
\* one keep-alive pong per period however many auth events it processed.
C36_AtMostOneTimer ==
    \A c \in Conns : activeTimers[c] <= 1

\* C37: the close of a connection that never completed a valid auth
\* changes no registry entry and no store and writes no frame to any
\* connection.
C37_CloseUnauthenticatedIsSilent ==
    [][\A c \in Conns :
           (close(c) /\ currentSessionId[c] = NULL) =>
               /\ StoresUnchanged
               /\ out' = NoOut
      ]_vars

\* C37 witness: connection 2 closed without having authenticated, "a" is
\* still registered on the open connection 1, the stored message is still
\* there and no frame was written.
C37_Witness ==
    /\ clients[A] = 1 /\ readyState[1] = "OPEN" /\ currentSessionId[1] = A
    /\ readyState[2] = "CLOSED" /\ currentSessionId[2] = NULL
    /\ Len(messages) = 1
    /\ out = NoOut

\* C38: the three stores are mutated only by their own events. A step that
\* changes the registry is an auth or a close; a step that changes the
\* invitation store is an invitation_send, invitation_accept,
\* invitation_decline or a sweeper tick; a step that changes the
\* conversation store is a message_send or a message_read.
C38_StoresHaveOwnEvents ==
    [][/\ clients' # clients =>
              \E c \in MsgConns :
                  \/ close(c)
                  \/ \E data \in AuthData : handleAuth(c, data)
       /\ invitations' # invitations =>
              \/ sweeper
              \/ \E c \in MsgConns :
                     \/ \E d \in DispInvSendData : handleInvitationSend(c, d)
                     \/ \E d \in DispInvData : handleInvitationAccept(c, d)
                     \/ \E d \in DispInvData : handleInvitationDecline(c, d)
       /\ messages' # messages =>
              \E c \in MsgConns :
                  \/ \E d \in DispSendData : handleMessageSend(c, d)
                  \/ \E d \in DispReadData : handleMessageRead(c, d)
      ]_vars

\* C38 witness: every store has been written by its events: "a" and "b"
\* are registered, m1 is stored and read, i1 is stored and expired by the
\* sweeper, the last step being a message_read on the connection of "b".
C38_Witness ==
    /\ clients[A] = 1 /\ clients[B] = 2
    /\ readyState[1] = "OPEN" /\ readyState[2] = "OPEN"
    /\ Len(messages) = 1 /\ messages[1].messages[1].status = "read"
    /\ Len(invitations) = 1 /\ invitations[1].status = "expired"
    /\ out[1] = << [type |-> "message_status",
                    data |-> [messageId |-> "m1", status |-> "read"]] >>

\* the invitation d.invitationId is in the store
Known(d) == \E i \in 1..Len(invitations) : invitations[i].id = d.invitationId

\* C39: the effect of invitation_send, invitation_accept and
\* invitation_decline of a known id, message_send and message_read does
\* not depend on the sending connection: whenever connection c1 processes
\* such an event, the same event processed on any other open connection
\* c2, whatever session id c2 has or has not authenticated with, leads to
\* the same stores and the same frames on the same connections.
C39_EffectIndependentOfSender ==
    [][\A c1, c2 \in MsgConns :
           readyState[c2] = "OPEN" =>
               /\ \A d \in DispSendData :
                      handleMessageSend(c1, d) => handleMessageSend(c2, d)
               /\ \A d \in DispReadData :
                      handleMessageRead(c1, d) => handleMessageRead(c2, d)
               /\ \A d \in DispInvSendData :
                      handleInvitationSend(c1, d)
                          => handleInvitationSend(c2, d)
               /\ \A d \in DispInvData :
                      Known(d) =>
                          /\ handleInvitationAccept(c1, d)
                                 => handleInvitationAccept(c2, d)
                          /\ handleInvitationDecline(c1, d)
                                 => handleInvitationDecline(c2, d)
      ]_vars

\* C39 witness: "b" is registered on connection 2, connection 1 is open
\* and has not authenticated, no connection ever authenticated as "a", and
\* the message m1 with senderId "a" is stored and was delivered to "b".
C39_Witness ==
    /\ readyState[1] = "OPEN" /\ currentSessionId[1] = NULL
    /\ readyState[2] = "OPEN" /\ currentSessionId[2] = B /\ clients[B] = 2
    /\ clients[A] = NoConn
    /\ Len(messages) = 1 /\ messages[1].messages[1].senderId = A
    /\ out[2] = << [type |-> "message_received",
                    data |-> messages[1].messages[1]] >>
    /\ out[1] = <<>>

=============================================================================
